---- MODULE Spec2Model ----
(***************************************************************************)
(* A model of subreddit_stats.py (class SubRedditStats and main).          *)
(*                                                                         *)
(* Three specifications share the variables:                               *)
(*   Spec     the window selector: prev_stat and fetch_recent_submissions, *)
(*            one step per item the lazy listing yields;                   *)
(*   SpecAgg  process_submitters, process_commenters, top_submitters and   *)
(*            top_commenters over a batch fetch_recent_submissions left;   *)
(*   SpecPub  publish_results.                                             *)
(* Timestamps are whole seconds.                                           *)
(***************************************************************************)
EXTENDS Integers, Sequences, FiniteSets, TLC

(***************************************************************************)
(* Program constants                                                       *)
(***************************************************************************)
DAYS_IN_SECONDS == 60 * 60 * 24
MAX_BODY_SIZE == 10000
\* the recency guard of __init__: max_date = time.time() - DAYS_IN_SECONDS * 3
RecencyDays == 3
post_prefix == <<"Subreddit Stats:">>

(***************************************************************************)
(* Bounds                                                                  *)
(***************************************************************************)
\* time.time() at construction, in days since the epoch
NowDays == 10
\* the oldest item the listing can yield is MaxAge days older than max_date
MaxAge == 2
\* the largest --days value
MaxDuration == 2
\* the listing yields at most MaxScan items
MaxScan == 3

\* None as a reference, and the marker that was not found
None == <<>>
NoMarker == 0 - 1
Now == NowDays * DAYS_IN_SECONDS
\* max_date as __init__ leaves it
M0 == Now - DAYS_IN_SECONDS * RecencyDays

Max(a, b) == IF a >= b THEN a ELSE b
Range(s) == {s[i] : i \in DOMAIN s}

VARIABLES
    pc,            \* where main is
    min_date, max_date, prev_srs, submissions,   \* fields of SubRedditStats
    source,        \* the items get_new_by_date has yielded so far
    max_duration, since_last,                    \* arguments of fetch_recent_submissions
    prior_marker,  \* what prev_stat stored in min_date (NoMarker: not called)
    found,         \* ids of the items reported by 'Found previous: ...'
    submitters, comments, commenters,            \* fields of SubRedditStats
    index,         \* process_commenters: the item of the batch the loop is at
    fetched,       \* the replies the reply requests have returned so far
    options,       \* main: options.submitters, options.commenters, options.debug
    ranking,       \* the last leaderboard built, and the items() it was sorted from
    debug, title, body, answer,                  \* locals of publish_results
    submit_calls,  \* the calls of reddit.submit, each with its outcome
    stdout         \* what was printed

fetchVars == <<min_date, max_date, prev_srs, source, max_duration, since_last,
               prior_marker, found>>
aggVars == <<submitters, comments, commenters, index, fetched, options, ranking>>
pubVars == <<debug, title, body, answer, submit_calls, stdout>>
vars == <<pc, submissions, fetchVars, aggVars, pubVars>>

(***************************************************************************)
(* Items of the listing                                                    *)
(***************************************************************************)
user == "me"
Authors == {user, "alice"}
\* a title is a sequence of words
Titles == {<<"Subreddit Stats:", "pics">>, <<"About", "Subreddit Stats:">>}
\* a word of a selftext: plain text, or 'SRS Marker: <n>'
Txt == [marker |-> FALSE, n |-> 0]
Mk(n) == [marker |-> TRUE, n |-> n]
\* a selftext is a sequence of words, some of which read 'SRS Marker: <n>'
Selftexts == {<<>>,
              <<Txt, Mk(M0 - DAYS_IN_SECONDS)>>,
              <<Mk(M0 - DAYS_IN_SECONDS), Txt, Mk(M0 - 2 * DAYS_IN_SECONDS)>>}
Times == {M0 + d * DAYS_IN_SECONDS : d \in (0 - MaxAge)..1}
Durations == 0..MaxDuration

permalink(submission) == <<"permalink", submission.id>>

StartsWith(string, prefix) ==
    /\ Len(string) >= Len(prefix)
    /\ SubSeq(string, 1, Len(prefix)) = prefix

\* re_marker.findall(selftext): the numbers of the marker words, in order
RECURSIVE findall(_)
findall(string) ==
    IF string = <<>> THEN <<>>
    ELSE LET rest == findall(Tail(string))
         IN  IF Head(string).marker THEN <<Head(string).n>> \o rest
             ELSE rest

\* _previous_max: the last marker of the selftext; NoMarker stands for sys.exit(1)
_previous_max(submission) ==
    LET all == findall(submission.selftext)
    IN  IF all = <<>> THEN NoMarker ELSE all[Len(all)]

\* the test of lines 88-89
IsPrevious(submission) ==
    /\ since_last
    /\ submission.author = user
    /\ StartsWith(submission.title, post_prefix)

\* the selftext is read only for the reporting user's own reports: the other
\* items carry the empty one
SourceItems ==
    {[id |-> Len(source) + 1, created_utc |-> t, author |-> a, title |-> ti, selftext |-> st] :
        t \in Times, a \in Authors, ti \in Titles, st \in Selftexts}
NextItems ==
    {x \in SourceItems :
        (x.author = user /\ StartsWith(x.title, post_prefix)) \/ x.selftext = <<>>}

\* self.submissions.sort(key=lambda x: x.created_utc): stable and ascending
SortByCreatedOmitted(s) == s
RECURSIVE InsertByCreated(_, _)
InsertByCreated(x, sorted) ==
    IF sorted = <<>> THEN <<x>>
    ELSE IF x.created_utc < Head(sorted).created_utc THEN <<x>> \o sorted
    ELSE <<Head(sorted)>> \o InsertByCreated(x, Tail(sorted))
RECURSIVE SortByCreated(_)
SortByCreated(s) ==
    IF s = <<>> THEN <<>>
    ELSE InsertByCreated(s[Len(s)], SortByCreated(SubSeq(s, 1, Len(s) - 1)))

\* a dict with no key
EmptyDict == [k \in {} |-> <<>>]

\* the state of the aggregates and of publish_results before they run
AggIdle ==
    /\ submitters = EmptyDict
    /\ comments = <<>>
    /\ commenters = EmptyDict
    /\ index = 0
    /\ fetched = <<>>
    /\ options = [submitters |-> 3, commenters |-> 3, debug |-> FALSE]
    /\ ranking = <<>>
PubIdle ==
    /\ debug = FALSE
    /\ title = <<>>
    /\ body = <<>>
    /\ answer = <<>>
    /\ submit_calls = <<>>
    /\ stdout = <<>>

(***************************************************************************)
(* main, prev_stat, fetch_recent_submissions                               *)
(***************************************************************************)
Init ==
    /\ pc = "main"
    /\ min_date = 0
    /\ max_date = M0
    /\ prev_srs = None
    /\ submissions = <<>>
    /\ source = <<>>
    /\ max_duration = 0
    /\ since_last = TRUE
    /\ prior_marker = NoMarker
    /\ found = <<>>
    /\ AggIdle
    /\ PubIdle

\* main with --prev: prev_stat(prev_url)
prev_stat ==
    /\ pc = "main"
    /\ \E st \in Selftexts :
         LET val == _previous_max([selftext |-> st])
         IN  IF val = NoMarker
             THEN /\ pc' = "exit_1"
                  /\ UNCHANGED <<min_date, prev_srs, prior_marker>>
             ELSE /\ pc' = "fetch"
                  /\ min_date' = val
                  /\ prev_srs' = <<"prev_url">>
                  /\ prior_marker' = val
    /\ UNCHANGED <<max_date, submissions, source, max_duration, since_last, found>>
    /\ UNCHANGED <<aggVars, pubVars>>

\* main without --prev
no_prev ==
    /\ pc = "main"
    /\ pc' = "fetch"
    /\ UNCHANGED <<min_date, max_date, prev_srs, submissions, source,
                   max_duration, since_last, prior_marker, found>>
    /\ UNCHANGED <<aggVars, pubVars>>

\* lines 78-79
InitialMinDate(lo, hi, duration) ==
    IF duration # 0 THEN hi - DAYS_IN_SECONDS * duration ELSE lo

\* main, lines 318-319: fetch_recent_submissions(max_duration=options.days),
\* since_last left at its default, up to the first request of the listing
fetch_begin ==
    /\ pc = "fetch"
    /\ \E d \in Durations :
         /\ max_duration' = d
         /\ since_last' = TRUE
         /\ min_date' = InitialMinDate(min_date, max_date, d)
    /\ pc' = "scan"
    /\ UNCHANGED <<max_date, prev_srs, submissions, source, prior_marker, found>>
    /\ UNCHANGED <<aggVars, pubVars>>

\* lines 84 and 86
TooRecent(submission, hi) == submission.created_utc > hi
TooOldStrict(submission, lo) == submission.created_utc < lo
TooOld(submission, lo) == submission.created_utc <= lo

\* lines 93-94
NewMinDateLast(old, marker) == marker
NewMinDate(old, marker) == Max(old, marker)

\* lines 99-107: what follows the loop
Finish(batch) ==
    IF Len(batch) = 0
    THEN /\ pc' = "returned_false"
         /\ submissions' = batch
         /\ UNCHANGED <<min_date, max_date>>
    ELSE LET sorted == SortByCreated(batch)
         IN  /\ pc' = "returned_true"
             /\ submissions' = sorted
             /\ min_date' = sorted[1].created_utc
             /\ max_date' = sorted[Len(sorted)].created_utc

\* line 84-85: continue
scan_skip ==
    /\ pc = "scan"
    /\ Len(source) < MaxScan
    /\ \E x \in NextItems :
         /\ TooRecent(x, max_date)
         /\ source' = Append(source, x)
    /\ UNCHANGED <<pc, min_date, max_date, prev_srs, submissions,
                   max_duration, since_last, prior_marker, found>>
    /\ UNCHANGED <<aggVars, pubVars>>

\* line 86-87: break, and the rest of the function
scan_break ==
    /\ pc = "scan"
    /\ Len(source) < MaxScan
    /\ \E x \in NextItems :
         /\ ~TooRecent(x, max_date)
         /\ TooOld(x, min_date)
         /\ source' = Append(source, x)
    /\ Finish(submissions)
    /\ UNCHANGED <<prev_srs, max_duration, since_last, prior_marker, found>>
    /\ UNCHANGED <<aggVars, pubVars>>

\* lines 88-97: a previous report of the reporting user
scan_previous ==
    /\ pc = "scan"
    /\ Len(source) < MaxScan
    /\ \E x \in NextItems :
         /\ ~TooRecent(x, max_date)
         /\ ~TooOld(x, min_date)
         /\ IsPrevious(x)
         /\ source' = Append(source, x)
         /\ found' = Append(found, x.id)
         /\ LET val == _previous_max(x)
            IN  IF val = NoMarker
                THEN /\ pc' = "exit_1"
                     /\ UNCHANGED <<min_date, prev_srs>>
                ELSE /\ min_date' = NewMinDate(min_date, val)
                     /\ IF prev_srs = None
                        THEN /\ prev_srs' = permalink(x)
                             /\ pc' = pc
                        ELSE /\ pc' = "AssertionError"
                             /\ UNCHANGED prev_srs
    /\ UNCHANGED <<max_date, submissions, max_duration, since_last, prior_marker>>
    /\ UNCHANGED <<aggVars, pubVars>>

\* line 98
scan_append ==
    /\ pc = "scan"
    /\ Len(source) < MaxScan
    /\ \E x \in NextItems :
         /\ ~TooRecent(x, max_date)
         /\ ~TooOld(x, min_date)
         /\ ~IsPrevious(x)
         /\ source' = Append(source, x)
         /\ submissions' = Append(submissions, x)
    /\ UNCHANGED <<pc, min_date, max_date, prev_srs,
                   max_duration, since_last, prior_marker, found>>
    /\ UNCHANGED <<aggVars, pubVars>>

\* the listing is exhausted, and the rest of the function
scan_end ==
    /\ pc = "scan"
    /\ Finish(submissions)
    /\ UNCHANGED <<prev_srs, source, max_duration, since_last, prior_marker, found>>
    /\ UNCHANGED <<aggVars, pubVars>>

Next ==
    \/ prev_stat
    \/ no_prev
    \/ fetch_begin
    \/ scan_skip
    \/ scan_break
    \/ scan_previous
    \/ scan_append
    \/ scan_end

Spec == Init /\ [][Next]_vars

(***************************************************************************)
(* process_submitters, process_commenters, top_submitters, top_commenters  *)
(***************************************************************************)
\* the batch holds at most MaxBatch items
MaxBatch == 3

\* the author of a deleted account is the None object, and str(None) is 'None'
NoAuthor == "<None>"
Str(author) == IF author = NoAuthor THEN "None" ELSE author

Scores == {0, 1}
BatchItems(k, n) ==
    {[id |-> k, created_utc |-> M0 - (n - k), author |-> a, score |-> sc, num_comments |-> nc] :
        a \in {"alice", NoAuthor}, sc \in Scores, nc \in {0, 2}}
\* the batches fetch_recent_submissions can leave: not empty, oldest first
Batches ==
    UNION {{b \in [1..n -> UNION {BatchItems(k, n) : k \in 1..n}] :
                \A k \in 1..n : b[k] \in BatchItems(k, n)} : n \in 1..MaxBatch}

\* a reply, and the MoreComments stub that stands for replies not loaded
Cm(a, u, d) == [comment |-> TRUE, author |-> a, ups |-> u, downs |-> d]
More == [comment |-> FALSE, author |-> NoAuthor, ups |-> 0, downs |-> 0]
\* what the reply request of one item can answer: all_comments_flat returns
\* flat, or raises ClientException and comments_flat is flat
Threads ==
    {[raises |-> FALSE, flat |-> <<>>],
     [raises |-> FALSE, flat |-> <<Cm("alice", 1, 1)>>],
     [raises |-> FALSE, flat |-> <<Cm(NoAuthor, 1, 1), Cm("None", 1, 0)>>],
     [raises |-> TRUE, flat |-> <<Cm("alice", 1, 0), More>>]}
\* the objects of a thread of item k: each is an object of its own
Objects(k, flat) ==
    [n \in 1..Len(flat) |->
        [id |-> <<k, n>>, comment |-> flat[n].comment, author |-> flat[n].author,
         ups |-> flat[n].ups, downs |-> flat[n].downs]]
\* [x for x in ... if isinstance(x, Comment)]
RECURSIVE OnlyComments(_)
OnlyComments(flat) ==
    IF flat = <<>> THEN <<>>
    ELSE IF Head(flat).comment THEN <<Head(flat)>> \o OnlyComments(Tail(flat))
    ELSE OnlyComments(Tail(flat))

\* the values --submitters and --commenters take
Nums == {0, 1, 3}

\* d[key].append(value) on a defaultdict(list)
DictAppend(d, key, value) ==
    [k \in DOMAIN d \cup {key} |->
        IF k = key THEN (IF key \in DOMAIN d THEN Append(d[key], value) ELSE <<value>>)
        ELSE d[k]]
\* for x in items: d[str(x.author)].append(x)
RECURSIVE GroupAll(_, _)
GroupAll(d, items) ==
    IF items = <<>> THEN d
    ELSE GroupAll(DictAppend(d, Str(Head(items).author), Head(items)), Tail(items))

RECURSIVE Sum(_)
Sum(numbers) == IF numbers = <<>> THEN 0 ELSE Head(numbers) + Sum(Tail(numbers))
\* the sort keys of lines 152-153 and 179-180
SubmitterKeyScoreOnly(group) == <<Sum([n \in DOMAIN group |-> group[n].score]), 0>>
SubmitterKey(group) == <<Sum([n \in DOMAIN group |-> group[n].score]), Len(group)>>
CommenterKey(group) ==
    <<Sum([n \in DOMAIN group |-> group[n].ups - group[n].downs]), Len(group)>>
\* the order of Python on pairs
PairLess(a, b) == a[1] < b[1] \/ (a[1] = b[1] /\ a[2] < b[2])

\* sorted(..., reverse=True, key=...) on a list of entries [author, key]:
\* descending, and entries of equal key keep the order of the list
RECURSIVE InsertDescending(_, _)
InsertDescending(x, sorted) ==
    IF sorted = <<>> THEN <<x>>
    ELSE IF PairLess(Head(sorted).key, x.key) THEN <<x>> \o sorted
    ELSE <<Head(sorted)>> \o InsertDescending(x, Tail(sorted))
RECURSIVE SortedReverse(_)
SortedReverse(entries) ==
    IF entries = <<>> THEN <<>>
    ELSE InsertDescending(entries[Len(entries)],
                          SortedReverse(SubSeq(entries, 1, Len(entries) - 1)))

\* the orders in which d.items() can list the keys of a dict: a dict of
\* Python 2 keeps no order
ItemsOrders(d) ==
    LET n == Cardinality(DOMAIN d)
    IN  {o \in [1..n -> DOMAIN d] : \A a, b \in 1..n : a # b => o[a] # o[b]}
Min(a, b) == IF a <= b THEN a ELSE b

InitAgg ==
    /\ pc = "process_submitters"
    /\ submissions \in Batches
    /\ min_date = submissions[1].created_utc
    /\ max_date = submissions[Len(submissions)].created_utc
    /\ prev_srs = None
    /\ source = <<>>
    /\ max_duration = 0
    /\ since_last = TRUE
    /\ prior_marker = NoMarker
    /\ found = <<>>
    /\ AggIdle
    /\ PubIdle

\* main, line 322
process_submitters ==
    /\ pc = "process_submitters"
    /\ submitters' = GroupAll(submitters, submissions)
    /\ pc' = "main_commenters"
    /\ UNCHANGED <<submissions, fetchVars, pubVars,
                   comments, commenters, index, fetched, options, ranking>>

\* main, line 323: process_commenters is called when --commenters is positive
main_commenters ==
    /\ pc = "main_commenters"
    /\ \E c \in Nums :
         /\ options' = [options EXCEPT !.commenters = c]
         /\ IF c > 0
            THEN pc' = "process_commenters" /\ index' = 1
            ELSE pc' = "top_submitters" /\ index' = index
    /\ UNCHANGED <<submissions, fetchVars, pubVars,
                   submitters, comments, commenters, fetched, ranking>>

\* line 126 follows the loop over the items: the replies are grouped once
GroupsEachItem(k, n) == TRUE
GroupsAfterLoop(k, n) == k = n

\* one round of the loop of lines 116-125 and, after the last, lines 126-127
NextItem(all) ==
    /\ comments' = all
    /\ commenters' =
         IF GroupsAfterLoop(index, Len(submissions)) THEN GroupAll(commenters, all)
         ELSE commenters
    /\ IF index = Len(submissions)
       THEN pc' = "top_submitters" /\ index' = index
       ELSE pc' = pc /\ index' = index + 1

\* line 117-118
commenters_skip ==
    /\ pc = "process_commenters"
    /\ submissions[index].num_comments = 0
    /\ NextItem(comments)
    /\ UNCHANGED <<submissions, fetchVars, pubVars, submitters, fetched, options, ranking>>

\* line 120
commenters_all ==
    /\ pc = "process_commenters"
    /\ submissions[index].num_comments # 0
    /\ \E th \in Threads :
         /\ ~th.raises
         /\ fetched' = fetched \o Objects(index, th.flat)
         /\ NextItem(comments \o Objects(index, th.flat))
    /\ UNCHANGED <<submissions, fetchVars, pubVars, submitters, options, ranking>>

\* lines 121-124
commenters_partial ==
    /\ pc = "process_commenters"
    /\ submissions[index].num_comments # 0
    /\ \E th \in Threads :
         /\ th.raises
         /\ fetched' = fetched \o Objects(index, th.flat)
         /\ NextItem(comments \o OnlyComments(Objects(index, th.flat)))
    /\ UNCHANGED <<submissions, fetchVars, pubVars, submitters, options, ranking>>

\* the leaderboard of top_submitters and top_commenters: the authors of the
\* lines '0. ... [author](/user/author)', in order, with the items() sorted
Leaderboard(section, num, order, lines) ==
    [section |-> section, num |-> num, items |-> order, lines |-> lines]
\* the items() of a dict in the given order, each with its sort key
SubmitterEntries(d, order) ==
    [n \in DOMAIN order |-> [author |-> order[n], key |-> SubmitterKey(d[order[n]])]]
CommenterEntries(d, order) ==
    [n \in DOMAIN order |-> [author |-> order[n], key |-> CommenterKey(d[order[n]])]]

\* publish_results, line 239: top_submitters(options.submitters)
top_submitters ==
    /\ pc = "top_submitters"
    /\ \E num \in Nums :
         /\ options' = [options EXCEPT !.submitters = num]
         /\ IF Min(num, Cardinality(DOMAIN submitters)) <= 0
            THEN ranking' = Leaderboard("submitters", num, <<>>, <<>>)
            ELSE \E order \in ItemsOrders(submitters) :
                   ranking' = Leaderboard("submitters", num, order,
                       SubSeq(SortedReverse(SubmitterEntries(submitters, order)),
                              1, Min(num, Cardinality(DOMAIN submitters))))
    /\ pc' = "top_commenters"
    /\ UNCHANGED <<submissions, fetchVars, pubVars,
                   submitters, comments, commenters, index, fetched>>

\* publish_results, line 240: top_commenters(options.commenters)
top_commenters ==
    /\ pc = "top_commenters"
    /\ LET num == options.commenters
       IN  IF Min(num, Cardinality(DOMAIN commenters)) <= 0
           THEN ranking' = Leaderboard("commenters", num, <<>>, <<>>)
           ELSE \E order \in ItemsOrders(commenters) :
                  ranking' = Leaderboard("commenters", num, order,
                      SubSeq(SortedReverse(CommenterEntries(commenters, order)),
                             1, Min(num, Cardinality(DOMAIN commenters))))
    /\ pc' = "ranked"
    /\ UNCHANGED <<submissions, fetchVars, pubVars,
                   submitters, comments, commenters, index, fetched, options>>

NextAgg ==
    \/ process_submitters
    \/ main_commenters
    \/ commenters_skip
    \/ commenters_all
    \/ commenters_partial
    \/ top_submitters
    \/ top_commenters

SpecAgg == InitAgg /\ [][NextAgg]_vars

(***************************************************************************)
(* publish_results                                                         *)
(***************************************************************************)
\* timef: strftime('%Y-%m-%d %H:%M PDT') keeps the minute of the timestamp
timef(timestamp) == timestamp \div 60

\* the title of lines 230-232
Title == [prefix |-> post_prefix, from |-> timef(min_date), to |-> timef(max_date)]
\* the body of lines 238-243: its sections count as their length, its footer
\* carries the link to the previous report and the marker
BodyLens == {MAX_BODY_SIZE - 1, MAX_BODY_SIZE, MAX_BODY_SIZE + 1, MAX_BODY_SIZE + 2000}
Body(len) == [len |-> len, prev |-> prev_srs, marker |-> max_date]

\* what raw_input can return, character by character
Answers == {<<"y">>, <<"Y">>, <<"y", "e", "s">>, <<"Y", "E", "S">>, <<"Y", "e", "s">>,
            <<>>, <<"n", "o">>, <<"y", "e">>, <<"y", "e", "s", " ">>}
LowerChar(c) ==
    CASE c = "Y" -> "y"
      [] c = "E" -> "e"
      [] c = "S" -> "s"
      [] OTHER -> c
\* str.lower
lower(string) == [n \in DOMAIN string |-> LowerChar(string[n])]

\* line 245
TooBigIgnored(text) == FALSE
TooBig(text) == text.len > MAX_BODY_SIZE
\* line 253
Affirmative(reply) == lower(reply) \in {<<"y">>, <<"y", "e", "s">>}

Line(kind, text) == [kind |-> kind, text |-> text]
\* lines 263-264
PrintTitleOnly(out, t, b) == out \o <<Line("title", t)>>
PrintReport(out, t, b) == out \o <<Line("title", t), Line("body", b)>>

\* main has reached line 325 with --commenters 0
InitPub ==
    /\ pc = "publish_results"
    /\ submissions \in Batches
    /\ min_date = submissions[1].created_utc
    /\ max_date = submissions[Len(submissions)].created_utc
    /\ prev_srs \in {None, <<"prev_url">>}
    /\ source = <<>>
    /\ max_duration = 0
    /\ since_last = TRUE
    /\ prior_marker = NoMarker
    /\ found = <<>>
    /\ submitters = GroupAll(EmptyDict, submissions)
    /\ comments = <<>>
    /\ commenters = EmptyDict
    /\ index = 0
    /\ fetched = <<>>
    /\ options \in {[submitters |-> 3, commenters |-> 0, debug |-> d] : d \in BOOLEAN}
    /\ ranking = <<>>
    /\ PubIdle

\* lines 230-249 in debug mode, asked for or forced, and lines 263-264
publish_debug ==
    /\ pc = "publish_results"
    /\ \E len \in BodyLens :
         /\ options.debug \/ TooBig(Body(len))
         /\ title' = Title
         /\ body' = Body(len)
         /\ debug' = TRUE
         /\ stdout' = PrintReport(
                IF TooBig(Body(len)) THEN Append(stdout, Line("too big", <<>>)) ELSE stdout,
                Title, Body(len))
    /\ pc' = "returned"
    /\ UNCHANGED <<submissions, fetchVars, aggVars, answer, submit_calls>>

\* lines 230-253 up to the prompt
publish_prompt ==
    /\ pc = "publish_results"
    /\ \E len \in BodyLens :
         /\ ~(options.debug \/ TooBig(Body(len)))
         /\ title' = Title
         /\ body' = Body(len)
    /\ debug' = FALSE
    /\ pc' = "raw_input"
    /\ UNCHANGED <<submissions, fetchVars, aggVars, answer, submit_calls, stdout>>

\* raw_input meets the end of the input
raw_input_eof ==
    /\ pc = "raw_input"
    /\ pc' = "EOFError"
    /\ UNCHANGED <<submissions, fetchVars, aggVars, pubVars>>

\* lines 253-254 and 263-264
answer_no ==
    /\ pc = "raw_input"
    /\ \E reply \in Answers :
         /\ ~Affirmative(reply)
         /\ answer' = reply
    /\ stdout' = PrintReport(Append(stdout, Line("aborted", <<>>)), title, body)
    /\ pc' = "returned"
    /\ UNCHANGED <<submissions, fetchVars, aggVars, debug, title, body, submit_calls>>

\* lines 253 and 255-257 up to the call of reddit.submit
answer_yes ==
    /\ pc = "raw_input"
    /\ \E reply \in Answers :
         /\ Affirmative(reply)
         /\ answer' = reply
    /\ pc' = "submit"
    /\ UNCHANGED <<submissions, fetchVars, aggVars, debug, title, body, submit_calls, stdout>>

\* lines 257-258: reddit.submit returns
submit_returns ==
    /\ pc = "submit"
    /\ submit_calls' = Append(submit_calls, "returned")
    /\ pc' = "returned"
    /\ UNCHANGED <<submissions, fetchVars, aggVars, debug, title, body, answer, stdout>>

\* a handler that calls reddit.submit again, up to three calls
submit_raises_retry ==
    /\ pc = "submit"
    /\ submit_calls' = Append(submit_calls, "raised")
    /\ IF Len(submit_calls') < 3
       THEN pc' = "submit" /\ stdout' = stdout
       ELSE /\ stdout' = PrintReport(Append(stdout, Line("failed", <<>>)), title, body)
            /\ pc' = "returned"
    /\ UNCHANGED <<submissions, fetchVars, aggVars, debug, title, body, answer>>
\* lines 257, 259-260 and 263-264: reddit.submit raises an Exception
submit_raises ==
    /\ pc = "submit"
    /\ submit_calls' = Append(submit_calls, "raised")
    /\ stdout' = PrintReport(Append(stdout, Line("failed", <<>>)), title, body)
    /\ pc' = "returned"
    /\ UNCHANGED <<submissions, fetchVars, aggVars, debug, title, body, answer>>

NextPub ==
    \/ publish_debug
    \/ publish_prompt
    \/ raw_input_eof
    \/ answer_no
    \/ answer_yes
    \/ submit_returns
    \/ submit_raises

SpecPub == InitPub /\ [][NextPub]_vars

(***************************************************************************)
(* Properties of the window selector (checked under Spec)                  *)
(***************************************************************************)
Batch == Range(submissions)
\* the lower bound fetch_recent_submissions starts the scan with
Lower0 ==
    IF max_duration # 0 THEN M0 - DAYS_IN_SECONDS * max_duration
    ELSE IF prior_marker # NoMarker THEN prior_marker ELSE 0
\* authored by the reporting user, with a title that starts with post_prefix
SelfReport(x) == x.author = user /\ StartsWith(x.title, post_prefix)
\* the listing is in reverse chronological order
ReverseChronological ==
    \A i, j \in DOMAIN source : i < j => source[i].created_utc >= source[j].created_utc
SetMax(S) == CHOOSE m \in S : \A n \in S : m >= n

\* C1 as stated: with since_last over a reverse-chronological listing (and no
\* --prev), every self-report the scan reaches (the item that ends the scan
\* aside) is absent from the returned batch and no item of the batch is as old
\* as its marker.
C1_Original ==
    (pc = "returned_true" /\ since_last /\ ReverseChronological /\ prior_marker = NoMarker) =>
        \A i \in DOMAIN source :
            (SelfReport(source[i]) /\ source[i].created_utc > Lower0) =>
                /\ source[i] \notin Batch
                /\ \A s \in Batch : s.created_utc > _previous_max(source[i])

\* C1 as amended: with since_last no self-report is ever in the batch; the
\* self-reports that pass both date tests (the ones 'Found previous' reports)
\* raise min_date to the maximum of the initial lower bound and their
\* markers, and every item appended after one of them is newer than its marker.
C1_SelfReportExcluded ==
    /\ since_last => \A s \in Batch : ~SelfReport(s)
    /\ pc = "scan" =>
         min_date = SetMax({Lower0} \cup {_previous_max(source[i]) : i \in Range(found)})
    /\ \A i \in Range(found) : \A s \in Batch :
         s.id > i => s.created_utc > _previous_max(source[i])

\* a self-report was found between two items of the returned batch
C1_Witness ==
    /\ pc = "returned_true"
    /\ since_last
    /\ ReverseChronological
    /\ \E i \in Range(found) :
         /\ \E s \in Batch : s.id < i
         /\ \E s \in Batch : s.id > i

\* C2 as stated: with a prior marker and a nonzero max_duration the scan
\* starts from max(max_date - max_duration * 86400, prior marker), and no item
\* of the batch is as old as the prior marker.
C2_PriorMarkerWins ==
    (prior_marker # NoMarker /\ max_duration # 0 /\ pc \in {"scan", "returned_true"}) =>
        /\ (pc = "scan" /\ found = <<>>) =>
             min_date = Max(M0 - DAYS_IN_SECONDS * max_duration, prior_marker)
        /\ \A s \in Batch : s.created_utc > prior_marker

\* C6: with max_duration > 0 every item of the batch is newer than
\* M0 - max_duration * 86400 and not newer than M0, the max_date of __init__.
C6_DurationWindow ==
    max_duration > 0 =>
        \A s \in Batch :
            /\ M0 - max_duration * DAYS_IN_SECONDS < s.created_utc
            /\ s.created_utc <= M0

\* a returned batch, after the scan skipped an item newer than M0 and stopped
\* at an item as old as the lower bound
C6_Witness ==
    /\ pc = "returned_true"
    /\ max_duration > 0
    /\ \E x \in Range(source) : x.created_utc > M0
    /\ \E x \in Range(source) : x.created_utc = M0 - max_duration * DAYS_IN_SECONDS
    /\ Batch # {}

\* C7 as stated: in every state min_date < max_date and every item of the
\* batch has min_date < created_utc <= max_date.
C7_Original ==
    /\ min_date < max_date
    /\ \A s \in Batch : min_date < s.created_utc /\ s.created_utc <= max_date

\* C7 as amended: once fetch_recent_submissions has returned True the window
\* is closed at both ends: min_date and max_date are the timestamps of the
\* oldest and the newest item of the batch, so min_date <= max_date and every
\* item has min_date <= created_utc <= max_date.
C7_ClosedWindow ==
    pc = "returned_true" =>
        /\ min_date <= max_date
        /\ \A s \in Batch : min_date <= s.created_utc /\ s.created_utc <= max_date
        /\ \E s \in Batch : s.created_utc = min_date
        /\ \E s \in Batch : s.created_utc = max_date

\* a returned batch of items with different timestamps
C7_Witness ==
    /\ pc = "returned_true"
    /\ Len(submissions) >= 2
    /\ min_date < max_date

\* the reference prev_srs was first given
FirstReference ==
    IF prior_marker # NoMarker THEN <<"prev_url">> ELSE permalink(source[found[1]])
\* C9 as stated: when a previous-report reference is already set and the scan
\* takes another self-report, the run does not fail, the item is excluded and
\* prev_srs keeps the first reference.
C9_SecondReportTolerated ==
    (Len(found) + (IF prior_marker # NoMarker THEN 1 ELSE 0) >= 2 /\ pc # "exit_1") =>
        /\ pc # "AssertionError"
        /\ prev_srs = FirstReference
        /\ \A i \in Range(found) : source[i] \notin Batch

(***************************************************************************)
(* Properties of the aggregates and the leaderboards (checked under        *)
(* SpecAgg)                                                                *)
(***************************************************************************)
\* the list a leaderboard ranks the authors of
RankedFrom == IF ranking.section = "submitters" THEN submissions ELSE comments
\* where an author was first met by process_submitters / process_commenters
FirstMet(author) ==
    CHOOSE n \in DOMAIN RankedFrom :
        /\ Str(RankedFrom[n].author) = author
        /\ \A m \in 1..(n - 1) : Str(RankedFrom[m].author) # author
\* where items() listed an author
Listed(author) == CHOOSE n \in DOMAIN ranking.items : ranking.items[n] = author
\* the leaderboard is in descending order of (total score, count)
Descending ==
    \A a, b \in DOMAIN ranking.lines :
        a < b => ~PairLess(ranking.lines[a].key, ranking.lines[b].key)
\* the line of each author carries the total and the count of its group
KeysOfGroups ==
    \A a \in DOMAIN ranking.lines :
        LET line == ranking.lines[a]
            group == IF ranking.section = "submitters" THEN submitters[line.author]
                     ELSE commenters[line.author]
        IN  /\ line.key[2] = Len(group)
            /\ line.key[1] = IF ranking.section = "submitters"
                             THEN Sum([n \in DOMAIN group |-> group[n].score])
                             ELSE Sum([n \in DOMAIN group |-> group[n].ups - group[n].downs])

\* C8 as stated: the authors are in descending order of (total score, count),
\* and two authors of equal total and equal count are in the order in which
\* process_submitters / process_commenters first met them.
C8_Original ==
    ranking # <<>> =>
        /\ Descending
        /\ KeysOfGroups
        /\ \A a, b \in DOMAIN ranking.lines :
             (a < b /\ ranking.lines[a].key = ranking.lines[b].key) =>
                 FirstMet(ranking.lines[a].author) < FirstMet(ranking.lines[b].author)

\* C8 as amended: the authors are in descending order of (total score, count),
\* and two authors of equal total and equal count are in the order in which
\* items() of the dict listed them, which need not be the order they were met in.
C8_RankingOrder ==
    ranking # <<>> =>
        /\ Descending
        /\ KeysOfGroups
        /\ \A a, b \in DOMAIN ranking.lines :
             (a < b /\ ranking.lines[a].key = ranking.lines[b].key) =>
                 Listed(ranking.lines[a].author) < Listed(ranking.lines[b].author)

\* a leaderboard of two authors of equal total score: the one with more items
\* is first although items() listed it last
C8_Witness ==
    /\ ranking # <<>>
    /\ ranking.section = "submitters"
    /\ Len(ranking.lines) = 2
    /\ ranking.lines[1].key[1] = ranking.lines[2].key[1]
    /\ ranking.lines[1].key[2] > ranking.lines[2].key[2]
    /\ ranking.items[2] = ranking.lines[1].author

\* how often x is in a list, and the total size of the groups of a dict
Occurrences(seq, x) == Cardinality({n \in DOMAIN seq : seq[n] = x})
RECURSIVE SizeOfGroups(_, _)
SizeOfGroups(d, keys) ==
    IF keys = {} THEN 0
    ELSE LET k == CHOOSE key \in keys : TRUE
         IN  Len(d[k]) + SizeOfGroups(d, keys \ {k})
\* C10: once process_commenters has run, every reply the requests returned is
\* once in self.comments and once in the groups of self.commenters, in the
\* group of str(author), and the sizes of the groups add up to len(comments).
C10_EachReplyOnce ==
    (pc \in {"top_submitters", "top_commenters", "ranked"} /\ options.commenters > 0) =>
        /\ \A r \in Range(fetched) :
             r.comment =>
                /\ Occurrences(comments, r) = 1
                /\ Str(r.author) \in DOMAIN commenters
                /\ Occurrences(commenters[Str(r.author)], r) = 1
                /\ \A k \in DOMAIN commenters :
                     k # Str(r.author) => Occurrences(commenters[k], r) = 0
        /\ SizeOfGroups(commenters, DOMAIN commenters) = Len(comments)

\* process_commenters has run over a batch of three items: one without
\* replies, one answered in full, one answered in part with a stub
C10_Witness ==
    /\ pc = "top_submitters"
    /\ options.commenters > 0
    /\ \E k \in DOMAIN submissions : submissions[k].num_comments = 0
    /\ \E r \in Range(fetched) : ~r.comment
    /\ \E r, q \in Range(fetched) : r.comment /\ q.comment /\ r.id[1] # q.id[1]
    /\ Cardinality(DOMAIN commenters) = 2

(***************************************************************************)
(* Properties of publish_results (checked under SpecPub)                   *)
(***************************************************************************)
Kinds(out) == [n \in DOMAIN out |-> out[n].kind]
\* the output ends with the title and the whole body
ReportPrinted ==
    /\ Len(stdout) >= 2
    /\ stdout[Len(stdout) - 1] = Line("title", title)
    /\ stdout[Len(stdout)] = Line("body", body)

C4_SubmitGuard ==
    (pc = "submit" \/ submit_calls # <<>>) =>
        /\ ~options.debug
        /\ body.len <= MAX_BODY_SIZE
        /\ lower(answer) \in {<<"y">>, <<"y", "e", "s">>}

\* reddit.submit was called with a body of exactly MAX_BODY_SIZE after the
\* answer 'YES'
C4_Witness ==
    /\ submit_calls # <<>>
    /\ body.len = MAX_BODY_SIZE
    /\ answer = <<"Y", "E", "S">>

\* reddit.submit returned and neither title nor body was printed
Published ==
    /\ submit_calls # <<>>
    /\ submit_calls[Len(submit_calls)] = "returned"
    /\ \A n \in DOMAIN stdout : stdout[n].kind \notin {"title", "body"}
\* C5: publish_results returns either after a reddit.submit that returned,
\* with neither title nor body printed, or with the title and the whole body
\* printed last and no reddit.submit that returned; never both, never neither.
C5_SubmittedOrPrinted ==
    pc = "returned" =>
        /\ Published \/ ReportPrinted
        /\ ~(Published /\ ReportPrinted)
        /\ ReportPrinted => "returned" \notin Range(submit_calls)

\* the confirmation was refused and the report was printed
C5_Witness ==
    /\ pc = "returned"
    /\ ~options.debug
    /\ answer = <<"n", "o">>
    /\ Kinds(stdout) = <<"aborted", "title", "body">>
    /\ ReportPrinted

====
